---- MODULE Spec2Model ----
(***************************************************************************)
(* Memory-bridge plugin of novusflow-gateway: the connection lifecycle     *)
(* (MemoryBridgeService.start / stop, the periodic stats refresh), the     *)
(* module-level status cache, and the six agent tools that dispatch to the *)
(* shared backend handle.                                                  *)
(*                                                                         *)
(* JavaScript runs one task at a time and yields only at an await, so each *)
(* action below is one synchronous segment of an async function: from its  *)
(* invocation (or the resumption of an await) to its next await or return. *)
(* The backend and the module loader are external: every awaited call      *)
(* resolves or rejects nondeterministically, or never (no step is taken).  *)
(***************************************************************************)
EXTENDS Integers, Sequences, FiniteSets, TLC

(* ------------------------------ bounds --------------------------------- *)
\* async calls (start, stop, refresh callbacks, tool calls) in flight at once
MaxCalls == 2
\* of these, tool calls
MaxToolCalls == 1
\* backend handles the factory can hand out in one behaviour
MaxHandles == 2
\* distinct statistics snapshots the backend can report
MaxStats == 2

(* --------------------------- value encodings --------------------------- *)
\* T | null : the empty tuple is null, a one-element tuple holds the value
None == <<>>
Some(v) == <<v>>

\* MemoryPlugin | null : handles are numbered from 1, 0 is null
NoHandle == 0
Handles == 1..MaxHandles

\* a message text: the sequence of its pieces, each a literal of the source
\* or a character of an interpolated string
Text(s) == <<s>>

\* values a backend call or a module load can throw: an Error carrying a
\* message, or some other value whose String() rendering is repr
Thrown ==
  { [isError |-> TRUE, message |-> Text("timeout")],
    [isError |-> FALSE, repr |-> Text("ECONNREFUSED")] }

\* err instanceof Error ? err.message : String(err)
MessageOf(err) == IF err.isError THEN err.message ELSE err.repr

\* MemoryStats values stats() can resolve to
StatsValues ==
  { [totalEntries |-> n, byNamespace |-> [internal |-> n]] : n \in 1..MaxStats }

\* const importPaths = [...] : the listed candidates, by position
importPaths ==
  << "@novusflow/memory-bridge",
     "../../../plugins/memory-bridge/dist/index.js",
     "../../../../plugins/memory-bridge/dist/index.js" >>

\* what awaiting import(path) can do: reject, load a module without the
\* createMemoryBridge export, or load one that has it
ImportOutcomes == {"missing", "noFactory", "factory"}

\* the direct-construction import, tried after the listed candidates
DirectPath == 0

LoadFailedMessage == Text("Failed to load @novusflow/memory-bridge module")

(* ------------------------------- state --------------------------------- *)
VARIABLES
  memoryBridge,     \* module state: the held handle, or NoHandle
  isConnected,      \* module state: connected flag
  lastError,        \* module state: None or Some(message)
  cachedStats,      \* module state: None or Some(stats snapshot)
  refreshInterval,  \* this.refreshInterval: the timer id, or 0
  timers,           \* setInterval timers created and not cleared
  created,          \* handles the factory has connected so far
  disconnectCalled, \* handles on which disconnect() has been invoked
  calls,            \* start, stop and refresh-callback calls in flight, or
                    \* completed and not yet collected by their caller
  toolCalls,        \* the same for tool calls
  lastCall,         \* history: the service call invoked last ("start" or
                    \* "stop"), "none" before the first
  fn                \* a pure function under evaluation: its inputs and, once
                    \* applied, its result (see ConfigSpec, SchemaSpec)

shared == <<memoryBridge, isConnected, lastError, cachedStats>>
vars == <<memoryBridge, isConnected, lastError, cachedStats, refreshInterval,
          timers, created, disconnectCalled, calls, toolCalls, lastCall, fn>>

CallIds == 1..MaxCalls
ToolCallIds == 1..MaxToolCalls
Idle == [kind |-> "idle", pc |-> "idle"]

\* export function getMemoryBridge()
getMemoryBridge == memoryBridge

\* export function getMemoryBridgeStatus()
getMemoryBridgeStatus ==
  [connected |-> isConnected, stats |-> cachedStats, error |-> lastError]

\* no completed call is waiting for its caller to resume (see Collect)
Quiet ==
  /\ \A i \in CallIds : calls[i].pc # "done"
  /\ \A j \in ToolCallIds : toolCalls[j].pc # "done"

Pending ==
  Cardinality({i \in CallIds : calls[i].kind # "idle"})
    + Cardinality({j \in ToolCallIds : toolCalls[j].kind # "idle"})

HasFree == Quiet /\ Pending < MaxCalls
FreeSlot == CHOOSE i \in CallIds :
              /\ calls[i].kind = "idle"
              /\ \A j \in CallIds : calls[j].kind = "idle" => i <= j

HasFreeTool ==
  Quiet /\ Pending < MaxCalls /\ \E j \in ToolCallIds : toolCalls[j].kind = "idle"
FreeToolSlot == CHOOSE i \in ToolCallIds :
                  /\ toolCalls[i].kind = "idle"
                  /\ \A j \in ToolCallIds : toolCalls[j].kind = "idle" => i <= j

SetCall(i, rec) ==
  calls' = [calls EXCEPT ![i] = rec] /\ UNCHANGED <<toolCalls, lastCall, fn>>

\* the service's start() or stop() is invoked: a new call
NewCall(rec) ==
  /\ calls' = [calls EXCEPT ![FreeSlot] = rec]
  /\ lastCall' = rec.kind
  /\ UNCHANGED <<toolCalls, fn>>

\* history: call i writes the module state; a start() that has written it
\* (handle, flag, error) and is still to write the stats records that another
\* call wrote in between
Interleave(cs, i) ==
  [k \in CallIds |->
     IF k # i /\ cs[k].kind = "start" /\ cs[k].pc = "stats"
     THEN [cs[k] EXCEPT !.interleaved = TRUE]
     ELSE cs[k]]

\* SetCall and NewCall for a segment that writes the module state
SetCallW(i, rec) ==
  /\ calls' = Interleave([calls EXCEPT ![i] = rec], i)
  /\ UNCHANGED <<toolCalls, lastCall, fn>>
NewCallW(rec) ==
  /\ calls' = Interleave([calls EXCEPT ![FreeSlot] = rec], FreeSlot)
  /\ lastCall' = rec.kind
  /\ UNCHANGED <<toolCalls, fn>>

\* call i is over: the calls still pending keep their order of invocation
IsPending(c) == c.kind # "idle"
EndCall(i) ==
  LET rest == SelectSeq([calls EXCEPT ![i] = Idle], IsPending)
  IN  /\ calls' = [k \in CallIds |-> IF k <= Len(rest) THEN rest[k] ELSE Idle]
      /\ UNCHANGED <<toolCalls, lastCall, fn>>

SetToolCall(j, rec) ==
  toolCalls' = [toolCalls EXCEPT ![j] = rec]
    /\ UNCHANGED <<calls, lastCall, fn>>

\* the service, the module state and the callers before anything has run
Fresh ==
  /\ memoryBridge = NoHandle
  /\ isConnected = FALSE
  /\ lastError = None
  /\ cachedStats = None
  /\ refreshInterval = 0
  /\ timers = {}
  /\ created = {}
  /\ disconnectCalled = {}
  /\ calls = [i \in CallIds |-> Idle]
  /\ toolCalls = [j \in ToolCallIds |-> Idle]
  /\ lastCall = "none"

NoFn == [op |-> "none"]

Init == Fresh /\ fn = NoFn

(* ------------------------ MemoryBridgeService.start -------------------- *)
\* mutant: the catch block rethrows
StartCatchRethrows == "raised"

\* the catch block of start() ends without rethrowing
StartCatchOutcome == "returned"

\* mutant: the catch block logs the failure and records nothing
StartCatchRecordsNothing(i, c, err) ==
  /\ UNCHANGED <<shared, refreshInterval, timers, created, disconnectCalled>>
  /\ SetCall(i, [kind |-> "start", pc |-> "done",
                 outcome |-> "returned",
                 ok |-> FALSE,
                 tried |-> c.tried,
                 via |-> c.via,
                 found |-> c.found,
                 failure |-> MessageOf(err)])

\* start(): catch (err) { lastError = message; isConnected = false; ... }
\* c is the call's record when the exception reaches the catch block
StartCatch(i, c, err) ==
  /\ lastError' = Some(MessageOf(err))
  /\ isConnected' = FALSE
  /\ UNCHANGED <<memoryBridge, cachedStats, refreshInterval, timers, created,
                 disconnectCalled>>
  /\ SetCallW(i, [kind |-> "start", pc |-> "done",
                 outcome |-> StartCatchOutcome,
                 ok |-> FALSE,
                 tried |-> c.tried,
                 via |-> c.via,
                 found |-> c.found,
                 failure |-> MessageOf(err)])

\* start() is invoked: it logs and awaits importMemoryBridge(), which awaits
\* the import of the first listed candidate
StartInvoke ==
  /\ HasFree
  /\ NewCall([kind |-> "start", pc |-> "import", idx |-> 1,
              tried |-> <<>>, via |-> "none", found |-> 0])
  /\ UNCHANGED <<shared, refreshInterval, timers, created, disconnectCalled>>

\* mutant: a loaded module is never taken, the loop always goes on
ModuleAcceptedNever(o) == FALSE

\* if (module.createMemoryBridge) { ...; return module; }
ModuleAccepted(o) == o = "factory"

\* mutant: the loop tries the same candidate again
NextCandidateSame(idx) == idx

\* for (const importPath of importPaths): the next position
NextCandidate(idx) == idx + 1

\* mutant: the loop stops one candidate short
LastCandidateEarly == Len(importPaths) - 1

\* for (const importPath of importPaths): the position the loop ends at
LastCandidate == Len(importPaths)

\* importMemoryBridge(): the awaited import of candidate idx settles.
\* The record logs the positions attempted (tried) and, as history, the
\* first candidate whose module had the createMemoryBridge export (found).
ImportStep(i) ==
  /\ Quiet
  /\ calls[i].kind = "start" /\ calls[i].pc = "import"
  /\ \E o \in ImportOutcomes :
       LET c == calls[i]
           tried2 == Append(c.tried, c.idx)
           found2 == IF o = "factory" /\ c.found = 0 THEN c.idx ELSE c.found
       IN  IF ModuleAccepted(o)
           THEN \* return module; start() goes on to await createMemoryBridge
                SetCall(i, [c EXCEPT !.pc = "connect", !.tried = tried2,
                                     !.via = "candidate", !.found = found2])
           ELSE IF c.idx < LastCandidate
           THEN SetCall(i, [c EXCEPT !.idx = NextCandidate(c.idx),
                                     !.tried = tried2,
                                     !.found = found2])
           ELSE \* the loop is over: try PostgresMemoryPlugin directly
                SetCall(i, [c EXCEPT !.pc = "direct", !.tried = tried2,
                                     !.found = found2])
  /\ UNCHANGED <<shared, refreshInterval, timers, created, disconnectCalled>>

\* importMemoryBridge(): the awaited import of the direct-construction path
\* settles. Loaded: a factory built around PostgresMemoryPlugin is returned.
\* Rejected: null is returned, start() throws "Failed to load ..." and
\* catches it.
DirectStep(i) ==
  /\ Quiet
  /\ calls[i].kind = "start" /\ calls[i].pc = "direct"
  /\ \E loaded \in BOOLEAN :
       LET c == calls[i]
           c2 == [c EXCEPT !.tried = Append(c.tried, DirectPath)]
       IN  IF loaded
           THEN /\ SetCall(i, [c2 EXCEPT !.pc = "connect", !.via = "direct"])
                /\ UNCHANGED <<shared, refreshInterval, timers, created,
                               disconnectCalled>>
           ELSE StartCatch(i, c2,
                           [isError |-> TRUE, message |-> LoadFailedMessage])

\* the handle a successful createMemoryBridge() returns: a new object
NewHandle == Cardinality(created) + 1

\* mutant: an earlier failure's message survives the new connection
StoreConnectionKeepsError(h) ==
  /\ memoryBridge' = h
  /\ isConnected' = TRUE
  /\ UNCHANGED lastError

\* memoryBridge = await createMemoryBridge(bridgeConfig); isConnected = true;
\* lastError = null
StoreConnection(h) ==
  /\ memoryBridge' = h
  /\ isConnected' = TRUE
  /\ lastError' = None

\* memoryBridge = await createMemoryBridge(bridgeConfig) settles.
\* Resolved: the module state is written and memoryBridge.stats() is called
\* and awaited. Rejected (the factory or, on the direct path, the constructor
\* or plugin.connect() threw): the catch block runs.
ConnectStep(i) ==
  /\ Quiet
  /\ calls[i].kind = "start" /\ calls[i].pc = "connect"
  /\ \/ /\ NewHandle \in Handles
        /\ StoreConnection(NewHandle)
        /\ created' = created \cup {NewHandle}
        /\ SetCallW(i, [kind |-> "start", pc |-> "stats",
                        handle |-> NewHandle, interleaved |-> FALSE])
        /\ UNCHANGED <<cachedStats, refreshInterval, timers, disconnectCalled>>
     \/ \E err \in Thrown : StartCatch(i, calls[i], err)

\* setInterval(...): a new timer, stored in this.refreshInterval whatever it
\* held before
SetRefreshInterval(t) ==
  /\ timers' = timers \cup {t}
  /\ refreshInterval' = t

\* mutant: a failed initial stats() is recorded as a failed start
InitialStatsCatchMarksError ==
  /\ isConnected' = FALSE
  /\ lastError' = Some(Text("stats failed"))
  /\ UNCHANGED <<memoryBridge, cachedStats>>

\* catch (statsErr) { this.logger.warn(...) }
InitialStatsCatch == UNCHANGED shared

\* the initial `cachedStats = await memoryBridge.stats()` settles; a rejection
\* is logged. Then the periodic refresh is scheduled and start() returns.
StartStatsStep(i) ==
  /\ Quiet
  /\ calls[i].kind = "start" /\ calls[i].pc = "stats"
  /\ \E r \in {None} \cup {Some(v) : v \in StatsValues} :
       LET done == [kind |-> "start", pc |-> "done",
                    outcome |-> "returned",
                    ok |-> TRUE,
                    handle |-> calls[i].handle,
                    firstStats |-> r,
                    interleaved |-> calls[i].interleaved]
       IN  /\ IF r = None
              THEN InitialStatsCatch /\ SetCall(i, done)
              ELSE /\ cachedStats' = r
                   /\ UNCHANGED <<memoryBridge, isConnected, lastError>>
                   /\ SetCallW(i, done)
           /\ SetRefreshInterval(calls[i].handle)
           /\ UNCHANGED <<created, disconnectCalled>>

(* ------------------------ MemoryBridgeService.stop --------------------- *)
\* mutant: stop() leaves the last error in place
StopClearKeepsError ==
  /\ memoryBridge' = NoHandle
  /\ isConnected' = FALSE
  /\ cachedStats' = None
  /\ UNCHANGED lastError

\* stop(): memoryBridge = null; isConnected = false; cachedStats = null;
\* lastError = null
StopClear ==
  /\ memoryBridge' = NoHandle
  /\ isConnected' = FALSE
  /\ cachedStats' = None
  /\ lastError' = None

\* a start() has been invoked and has not returned
StartInFlight == \E k \in CallIds : calls[k].kind = "start" /\ calls[k].pc # "done"

\* mutant: the field is reset but the timer is left running
ClearRefreshIntervalKeepsTimer ==
  /\ UNCHANGED timers
  /\ refreshInterval' = 0

\* if (this.refreshInterval) { clearInterval(this.refreshInterval);
\*                             this.refreshInterval = null }
ClearRefreshInterval ==
  /\ timers' = IF refreshInterval # 0 THEN timers \ {refreshInterval} ELSE timers
  /\ refreshInterval' = 0

\* stop() is invoked: the refresh timer is cleared, and if a handle is held
\* and connected, disconnect() is called on it and awaited; otherwise the
\* state is cleared at once. The record keeps the service call invoked
\* before this one, the timer this call cancelled and whether a start() was
\* awaiting something when stop() was invoked.
StopInvoke ==
  /\ HasFree
  /\ ClearRefreshInterval
  /\ UNCHANGED created
  /\ IF memoryBridge # NoHandle /\ isConnected
     THEN /\ disconnectCalled' = disconnectCalled \cup {memoryBridge}
          /\ NewCall([kind |-> "stop", pc |-> "disconnect",
                      handle |-> memoryBridge, prev |-> lastCall,
                      cancelled |-> refreshInterval,
                      duringStart |-> StartInFlight])
          /\ UNCHANGED shared
     ELSE /\ StopClear
          /\ UNCHANGED disconnectCalled
          /\ NewCallW([kind |-> "stop", pc |-> "done",
                       outcome |-> "returned",
                       disconnected |-> NoHandle,
                       disconnectThrew |-> FALSE,
                       prev |-> lastCall,
                       cancelled |-> refreshInterval,
                       duringStart |-> StartInFlight])

\* mutant: a disconnect() that throws ends stop() before the state is cleared
StopAfterDisconnectPropagates(threw) ==
  IF threw THEN UNCHANGED shared ELSE StopClear

\* try { await memoryBridge.disconnect() } catch (err) { warn }: resolved or
\* rejected, stop() goes on to clear the state
StopAfterDisconnect(threw) == StopClear

\* the awaited disconnect() settles; a rejection is logged. The state is
\* cleared and stop() returns.
StopDisconnectStep(i) ==
  /\ Quiet
  /\ calls[i].kind = "stop" /\ calls[i].pc = "disconnect"
  /\ \E threw \in BOOLEAN :
       /\ StopAfterDisconnect(threw)
       /\ UNCHANGED <<refreshInterval, timers, created, disconnectCalled>>
       /\ SetCallW(i, [kind |-> "stop", pc |-> "done",
                       outcome |-> "returned",
                       disconnected |-> calls[i].handle,
                       disconnectThrew |-> threw,
                       prev |-> calls[i].prev,
                       cancelled |-> calls[i].cancelled,
                       duringStart |-> calls[i].duringStart])

(* ------------------------- the refresh callback ------------------------ *)
\* if (memoryBridge && isConnected): whether a tick calls stats()
RefreshGuard == memoryBridge # NoHandle /\ isConnected

\* a timer fires: the callback calls memoryBridge.stats() and awaits it, or
\* does nothing when the guard is false
RefreshTick(t) ==
  /\ Quiet
  /\ t \in timers
  /\ IF RefreshGuard
     THEN /\ HasFree
          /\ SetCall(FreeSlot, [kind |-> "tick", pc |-> "stats",
                                handle |-> memoryBridge])
     ELSE UNCHANGED <<calls, toolCalls, lastCall, fn>>
  /\ UNCHANGED <<shared, refreshInterval, timers, created, disconnectCalled>>

\* mutant: a failed refresh drops the snapshot
RefreshCatchDropsStats == cachedStats' = None

\* catch { /* Ignore stats refresh errors */ }
RefreshCatch == UNCHANGED cachedStats

\* mutant: the namespaces of the new value are merged into the snapshot held
RefreshStoreMerges(r) ==
  cachedStats' =
    IF cachedStats = None THEN r
    ELSE Some([totalEntries |-> r[1].totalEntries,
               byNamespace |-> cachedStats[1].byNamespace @@ r[1].byNamespace])

\* cachedStats = await memoryBridge.stats()
RefreshStore(r) == cachedStats' = r

\* the callback's awaited stats() settles: the snapshot is replaced, or the
\* rejection is ignored; the callback returns. Its record keeps the value
\* stats() resolved to, None when it threw.
RefreshStatsStep(i) ==
  /\ Quiet
  /\ calls[i].kind = "tick" /\ calls[i].pc = "stats"
  /\ \E r \in {None} \cup {Some(v) : v \in StatsValues} :
       LET done == [kind |-> "tick", pc |-> "done",
                    outcome |-> "returned",
                    handle |-> calls[i].handle,
                    stats |-> r,
                    before |-> cachedStats]
       IN  IF r = None
           THEN RefreshCatch /\ SetCall(i, done)
           ELSE RefreshStore(r) /\ SetCallW(i, done)
  /\ UNCHANGED <<memoryBridge, isConnected, lastError, refreshInterval, timers,
                 created, disconnectCalled>>

(* ------------------------------ strings -------------------------------- *)
\* a JavaScript string is the sequence of its characters, so that trimming
\* and case folding are computed and not assumed
WhiteSpace == {" ", "\t", "\n"}
UpperCase == << "A", "B", "C", "D", "E", "F", "G", "H", "I", "J", "K", "L", "M",
                "N", "O", "P", "Q", "R", "S", "T", "U", "V", "W", "X", "Y", "Z" >>
LowerCase == << "a", "b", "c", "d", "e", "f", "g", "h", "i", "j", "k", "l", "m",
                "n", "o", "p", "q", "r", "s", "t", "u", "v", "w", "x", "y", "z" >>

\* String.prototype.trim
RECURSIVE TrimStart(_)
TrimStart(s) ==
  IF s # <<>> /\ Head(s) \in WhiteSpace THEN TrimStart(Tail(s)) ELSE s
RECURSIVE TrimEnd(_)
TrimEnd(s) ==
  IF s # <<>> /\ s[Len(s)] \in WhiteSpace
  THEN TrimEnd(SubSeq(s, 1, Len(s) - 1)) ELSE s
Trim(s) == TrimEnd(TrimStart(s))

\* String.prototype.toLowerCase
ToLowerChar(c) ==
  IF \E k \in DOMAIN UpperCase : UpperCase[k] = c
  THEN LowerCase[CHOOSE k \in DOMAIN UpperCase : UpperCase[k] = c]
  ELSE c
ToLowerCase(s) == [k \in DOMAIN s |-> ToLowerChar(s[k])]

\* const ALLOWED_SCHEMAS = [...]
ALLOWED_SCHEMAS ==
  { <<"i","n","t","e","r","n","a","l">>,
    <<"s","h","a","r","e","d","_","p","a","t","t","e","r","n","s">>,
    <<"c","l","i","e","n","t","_","a","r","e","t","e","_","h","e","a","l","t","h">>,
    <<"c","l","i","e","n","t","_","d","e","c","c","a","n","_","i","n","t","l">>,
    <<"c","l","i","e","n","t","_","i","g","o","e","_","c","o","m","p","a","n","y">>,
    <<"c","l","i","e","n","t","_","c","a","f","e","m","o","t","o">>,
    <<"c","l","i","e","n","t","_","p","l","e","n","u","m","s","_","p","l","u","s">> }

\* mutant: the name is looked up as written
validateSchemaAsWritten(schema) ==
  IF schema \notin ALLOWED_SCHEMAS
  THEN [threw |-> TRUE, message |-> Text("Invalid schema: ") \o schema]
  ELSE [threw |-> FALSE, value |-> schema]

\* validateSchema(schema): the normalised name, or the Error it throws
validateSchema(schema) ==
  LET normalized == Trim(ToLowerCase(schema))
  IN  IF normalized \notin ALLOWED_SCHEMAS
      THEN [threw |-> TRUE, message |-> Text("Invalid schema: ") \o schema]
      ELSE [threw |-> FALSE, value |-> normalized]

(* --------------------------- tool parameters --------------------------- *)
\* a value of params[key]: absent, a string, or something that is no string
Undefined == [t |-> "undefined", v |-> <<>>]
NotAString == [t |-> "number", v |-> <<>>]
Str(s) == [t |-> "string", v |-> s]

\* readStringParam(params, key, { required }) with trim left at its default:
\* the trimmed string, undefined (None), or the Error `${key} required`
readStringParam(params, key, required) ==
  LET raw == params[key]
      value == Trim(raw.v)
  IN  IF raw.t # "string" \/ value = <<>>
      THEN IF required
           THEN [threw |-> TRUE, message |-> <<key, " required">>]
           ELSE [threw |-> FALSE, value |-> None]
      ELSE [threw |-> FALSE, value |-> Some(value)]

\* function jsonResult(payload)
jsonResult(payload) == [content |-> <<"text">>, details |-> payload]

NotConnectedMessage == Text("Memory bridge not connected")
DefaultNamespace == <<"d","e","f","a","u","l","t">>

Tools == { "memory_store", "memory_search_enterprise", "memory_read",
           "memory_delete", "memory_list", "memory_stats" }

\* the inputs tool calls are made with
KeyInputs ==
  { Undefined, NotAString, Str(<<>>), Str(<<" ">>), Str(<<" ", "k", "\t">>) }
ContentInputs == { Undefined, Str(<<"\n">>), Str(<<"c">>) }
NamespaceInputs ==
  { Undefined, Str(<<" ", "I","n","t","e","r","n","a","l">>),
    Str(<<"d","r","o","p","_","a","l","l">>) }

ToolParams(tool) ==
  CASE tool = "memory_store" ->
         [key : KeyInputs, content : ContentInputs, namespace : NamespaceInputs]
    [] tool = "memory_search_enterprise" ->
         [query : KeyInputs, namespace : NamespaceInputs,
          includeMetadata : {Undefined, [t |-> "boolean", v |-> <<TRUE>>],
                             [t |-> "string", v |-> <<"t","r","u","e">>]}]
    [] tool \in {"memory_read", "memory_delete"} ->
         [key : KeyInputs, namespace : NamespaceInputs]
    [] tool = "memory_list" -> [namespace : NamespaceInputs]
    [] tool = "memory_stats" -> {[namespace |-> Undefined]}

(* ------------------- start(): the connection parameters ---------------- *)
\* numbers: a finite number, or NaN
Num(n) == [t |-> "number", v |-> <<n>>]
NaN == [t |-> "NaN", v |-> <<>>]

\* ToBoolean(value) for undefined, strings and numbers
Truthy(x) ==
  CASE x.t = "undefined" -> FALSE
    [] x.t = "string" -> x.v # <<>>
    [] x.t = "number" -> x.v # <<0>>
    [] x.t = "NaN" -> FALSE

\* mutant: a ?? b
NullishOr(a, b) == IF a.t # "undefined" THEN a ELSE b

\* a || b
Or(a, b) == IF Truthy(a) THEN a ELSE b

\* parseInt(string) without a radix, for decimal input: leading white space
\* is skipped, an optional sign and the longest prefix of digits are read,
\* NaN when there is no digit
DecimalDigits == << "0", "1", "2", "3", "4", "5", "6", "7", "8", "9" >>
IsDigit(c) == \E k \in DOMAIN DecimalDigits : DecimalDigits[k] = c
DigitValue(c) == (CHOOSE k \in DOMAIN DecimalDigits : DecimalDigits[k] = c) - 1
RECURSIVE ParseDigits(_, _)
ParseDigits(s, acc) ==
  IF s = <<>> \/ ~IsDigit(Head(s)) THEN acc
  ELSE ParseDigits(Tail(s), acc * 10 + DigitValue(Head(s)))
parseInt(str) ==
  LET s == TrimStart(str.v)
      signed == s # <<>> /\ Head(s) \in {"+", "-"}
      digits == IF signed THEN Tail(s) ELSE s
  IN  IF digits = <<>> \/ ~IsDigit(Head(digits)) THEN NaN
      ELSE IF signed /\ Head(s) = "-" THEN Num(0 - ParseDigits(digits, 0))
      ELSE Num(ParseDigits(digits, 0))

\* the hard-coded fallbacks
FallbackHost == Str(<<"v","m","-","c","l","a","u","d","e","-","f","l","o","w","-","p","r","o","d">>)
FallbackPort == Str(<<"5","4","3","2">>)
FallbackDatabase == Str(<<"c","l","a","u","d","e","_","f","l","o","w","_","m","s","p">>)
FallbackUser == Str(<<"u","n","k","n","o","w","n">>)

\* const bridgeConfig = { postgresHost: ..., postgresPort: ..., database: ...,
\* userId: ... } from this.config and process.env
bridgeConfig(config, env) ==
  [postgresHost |-> Or(config.host, Or(env.CLAUDE_FLOW_PG_HOST, FallbackHost)),
   postgresPort |-> Or(config.port,
                       parseInt(Or(env.CLAUDE_FLOW_PG_PORT, FallbackPort))),
   database |-> Or(config.database,
                   Or(env.CLAUDE_FLOW_DATABASE, FallbackDatabase)),
   userId |-> Or(env.CLAUDE_FLOW_USER, Or(env.USER, FallbackUser))]

\* the plugin configurations and environments the parameters are built from
ConfigInputs ==
  [host : {Undefined, Str(<<>>), Str(<<"h">>)},
   port : {Undefined, Num(0), Num(5433)},
   database : {Undefined, Str(<<>>), Str(<<"d">>)}]
EnvInputs ==
  [CLAUDE_FLOW_PG_HOST : {Undefined, Str(<<>>), Str(<<"e">>)},
   CLAUDE_FLOW_PG_PORT : {Undefined, Str(<<>>), Str(<<"6","5","4","3">>),
                          Str(<<" ","6","5","x">>), Str(<<"a","b","c">>)},
   CLAUDE_FLOW_DATABASE : {Undefined, Str(<<"m">>)},
   CLAUDE_FLOW_USER : {Undefined, Str(<<"u">>)},
   USER : {Undefined, Str(<<"r">>)}]

\* a service is constructed with a configuration, in an environment
ConfigInit ==
  /\ Fresh
  /\ fn \in [op : {"config"}, config : ConfigInputs, env : EnvInputs]

\* start() builds the connection parameters it passes to createMemoryBridge
BuildBridgeConfig ==
  /\ fn.op = "config"
  /\ fn' = [op |-> "bridgeConfig", config |-> fn.config, env |-> fn.env,
            out |-> bridgeConfig(fn.config, fn.env)]
  /\ UNCHANGED <<shared, refreshInterval, timers, created, disconnectCalled,
                 calls, toolCalls, lastCall>>

ConfigNext == BuildBridgeConfig

ConfigSpec == ConfigInit /\ [][ConfigNext]_vars

(* ---------------------- novusflow_memory_store ------------------------- *)
\* ways a caller may write a schema name: other letter case, white space
\* around it
ToUpperChar(c) ==
  IF \E k \in DOMAIN LowerCase : LowerCase[k] = c
  THEN UpperCase[CHOOSE k \in DOMAIN LowerCase : LowerCase[k] = c]
  ELSE c
ToUpperCase(s) == [k \in DOMAIN s |-> ToUpperChar(s[k])]
Capitalised(s) == <<ToUpperChar(Head(s))>> \o Tail(s)
Spellings(a) ==
  { a, Capitalised(a), ToUpperCase(a), <<" ">> \o a, a \o <<"\n">>,
    <<"\t", " ">> \o Capitalised(a) \o <<" ">> }

\* params.namespace: absent, a spelling of an allowed schema, or another name
SchemaInputs ==
  {Undefined}
    \cup {Str(w) : w \in UNION {Spellings(a) : a \in ALLOWED_SCHEMAS}}
    \cup { Str(<<"d","r","o","p","_","a","l","l">>), Str(<<>>), Str(<<" ">>),
           Str(<<"i","n","t","e","r","n","a","l","s">>),
           Str(<<"n","t","e","r","n","a","l">>),
           Str(<<"i","n","t","e","r"," ","n","a","l">>),
           Str(<<"i","n","t","e","r","n","a","l"," ","x">>) }

\* config.defaultNamespace: "internal" unless NOVUSFLOW_DEFAULT_NAMESPACE
\* says otherwise
DefaultNamespaces ==
  { <<"i","n","t","e","r","n","a","l">>, <<"S","h","a","r","e","d">> }

\* `${key}` of a parameter
TemplateText(x) == IF x.t = "undefined" THEN Text("undefined") ELSE x.v

\* namespace ?? config.defaultNamespace
NamespaceOrDefault(namespace, defaultNamespace) ==
  IF namespace.t = "undefined" THEN defaultNamespace ELSE namespace.v

\* novusflow_memory_store.execute: the payload it hands to jsonResult
novusflow_memory_store(params, config) ==
  LET schema == validateSchema(
                  NamespaceOrDefault(params.namespace, config.defaultNamespace))
  IN  IF schema.threw
      THEN [success |-> FALSE, error |-> schema.message]
      ELSE [success |-> TRUE, key |-> params.key, namespace |-> schema.value,
            message |-> Text("Stored '") \o TemplateText(params.key)
                          \o Text("' in ") \o schema.value]

\* a call of the tool with its parameters and the plugin's configuration
SchemaInit ==
  /\ Fresh
  /\ fn \in [op : {"store"},
              params : [key : {Str(<<"k">>)}, namespace : SchemaInputs],
              config : [defaultNamespace : DefaultNamespaces]]

StoreExecute ==
  /\ fn.op = "store"
  /\ fn' = [op |-> "stored", params |-> fn.params, config |-> fn.config,
            out |-> novusflow_memory_store(fn.params, fn.config)]
  /\ UNCHANGED <<shared, refreshInterval, timers, created, disconnectCalled,
                 calls, toolCalls, lastCall>>

SchemaNext == StoreExecute

SchemaSpec == SchemaInit /\ [][SchemaNext]_vars

(* ------------------------- the backend contract ------------------------ *)
\* SearchResult values a search can resolve to, with and without metadata
SearchHit(n, meta) ==
  [key |-> <<"k", n>>, content |-> <<"c">>, score |-> n,
   namespace |-> Some(<<"i","n","t","e","r","n","a","l">>), metadata |-> meta]
SearchResponses ==
  { <<>>, <<SearchHit(2, Some("m")), SearchHit(1, None)>> }

\* what an awaited backend operation can settle to
Resolutions(name) ==
  CASE name = "write" -> {None}
    [] name = "search" -> SearchResponses
    [] name = "read" -> {None, Some(<<"v">>)}
    [] name = "delete" -> BOOLEAN
    [] name = "list" -> {<<>>, << <<"k">> >>}
    [] name = "stats" -> StatsValues
Settlements(name) ==
  {[ok |-> TRUE, value |-> v] : v \in Resolutions(name)}
    \cup {[ok |-> FALSE, err |-> e] : e \in Thrown}

(* ------------------------------ the tools ------------------------------ *)
\* mutant: the handle check is missing
NotConnectedUnchecked(bridge) == FALSE

\* if (!bridge) return jsonResult({ ..., error: "Memory bridge not connected" })
NotConnected(bridge) == bridge = NoHandle

NotConnectedResult(tool) ==
  jsonResult(
    CASE tool \in {"memory_store", "memory_delete"} ->
           [success |-> FALSE, error |-> NotConnectedMessage]
      [] tool = "memory_search_enterprise" ->
           [results |-> <<>>, error |-> NotConnectedMessage]
      [] tool = "memory_list" -> [keys |-> <<>>, error |-> NotConnectedMessage]
      [] tool \in {"memory_read", "memory_stats"} ->
           [error |-> NotConnectedMessage])

Throws(message) == [threw |-> TRUE, message |-> message]
Calls(op) == [threw |-> FALSE, op |-> op]

\* execute(): from the parameter reads to the backend call. Either a
\* parameter read throws, or the backend operation op is called and awaited.
\* (limit, threshold, offset and tags are read with non-throwing helpers and
\* passed through; they are left out.)
Prepare(tool, params) ==
  CASE tool = "memory_store" ->
         LET key == readStringParam(params, "key", TRUE)
             content == readStringParam(params, "content", TRUE)
             namespace == readStringParam(params, "namespace", FALSE)
         IN  IF key.threw THEN Throws(key.message)
             ELSE IF content.threw THEN Throws(content.message)
             ELSE Calls([name |-> "write", key |-> key.value[1],
                         content |-> content.value[1],
                         namespace |-> namespace.value])
    [] tool = "memory_search_enterprise" ->
         LET query == readStringParam(params, "query", TRUE)
             namespace == readStringParam(params, "namespace", FALSE)
             includeMetadata == params.includeMetadata.t = "boolean"
                                  /\ params.includeMetadata.v = <<TRUE>>
         IN  IF query.threw THEN Throws(query.message)
             ELSE Calls([name |-> "search", query |-> query.value[1],
                         namespace |-> namespace.value,
                         includeMetadata |-> includeMetadata])
    [] tool = "memory_read" ->
         LET key == readStringParam(params, "key", TRUE)
         IN  IF key.threw THEN Throws(key.message)
             ELSE Calls([name |-> "read", key |-> key.value[1]])
    [] tool = "memory_delete" ->
         LET key == readStringParam(params, "key", TRUE)
         IN  IF key.threw THEN Throws(key.message)
             ELSE Calls([name |-> "delete", key |-> key.value[1]])
    [] tool = "memory_list" ->
         LET namespace == readStringParam(params, "namespace", FALSE)
         IN  Calls([name |-> "list", namespace |-> namespace.value])
    [] tool = "memory_stats" -> Calls([name |-> "stats"])

\* mutant: a result's metadata is passed on whenever it has some
MapHitWithMetadata(r, includeMetadata) ==
  LET base == [key |-> r.key, content |-> r.content, score |-> r.score,
               namespace |-> r.namespace]
  IN  IF r.metadata # None THEN base @@ [metadata |-> r.metadata[1]] ELSE base

\* results.map((r) => ({ key, content, score, namespace,
\*                       ...(includeMetadata && r.metadata ? { metadata } : {}) }))
MapHit(r, includeMetadata) ==
  LET base == [key |-> r.key, content |-> r.content, score |-> r.score,
               namespace |-> r.namespace]
  IN  IF includeMetadata /\ r.metadata # None
      THEN base @@ [metadata |-> r.metadata[1]]
      ELSE base

\* the try branch of execute(): the payload built from what the backend
\* operation resolved to
SuccessPayload(tool, op, value) ==
  CASE tool = "memory_store" ->
         [success |-> TRUE, key |-> op.key,
          namespace |-> IF op.namespace = None THEN DefaultNamespace
                        ELSE op.namespace[1]]
    [] tool = "memory_search_enterprise" ->
         [results |-> [k \in DOMAIN value |-> MapHit(value[k], op.includeMetadata)],
          count |-> Len(value)]
    [] tool = "memory_read" ->
         IF value = None
         THEN [key |-> op.key, found |-> FALSE, error |-> Text("Memory not found")]
         ELSE [key |-> op.key, found |-> TRUE, content |-> value[1]]
    [] tool = "memory_delete" -> [success |-> value, key |-> op.key]
    [] tool = "memory_list" -> [keys |-> value, count |-> Len(value)]
    [] tool = "memory_stats" -> value

\* mutant: the catch branch reports a failure without the message
FailurePayloadNoMessage(tool, op, err) == [success |-> FALSE]

\* the catch branch of execute(): the payload built from the exception
FailurePayload(tool, op, err) ==
  CASE tool = "memory_store" -> [success |-> FALSE, error |-> MessageOf(err)]
    [] tool = "memory_search_enterprise" ->
         [results |-> <<>>, error |-> MessageOf(err)]
    [] tool = "memory_read" ->
         [key |-> op.key, found |-> FALSE, error |-> MessageOf(err)]
    [] tool = "memory_delete" ->
         [success |-> FALSE, key |-> op.key, error |-> MessageOf(err)]
    [] tool = "memory_list" -> [keys |-> <<>>, error |-> MessageOf(err)]
    [] tool = "memory_stats" -> [error |-> MessageOf(err)]

\* mutant: a tool call marks the connection as lost
ToolEffectMarksDisconnected ==
  /\ isConnected' = FALSE
  /\ UNCHANGED <<memoryBridge, lastError, cachedStats, refreshInterval, timers,
                 created, disconnectCalled>>

\* what a tool call does to the module state and the service: nothing
ToolEffect ==
  UNCHANGED <<shared, refreshInterval, timers, created, disconnectCalled>>

\* a tool's execute() is called: it reads the handle and returns at once when
\* there is none; else it reads its parameters, which may throw out of
\* execute(), and calls the backend operation and awaits it.
\* A record in flight holds the handle read, the parameters and the
\* operation awaited; a completed one holds whether a handle was read, the
\* operations invoked, the exception the backend threw if any, and the
\* result returned or the exception raised, and after a backend call the
\* parameters and what the backend resolved to.
ToolInvoke(tool, params) ==
  /\ HasFreeTool
  /\ LET bridge == getMemoryBridge
         p == Prepare(tool, params)
     IN  IF NotConnected(bridge)
         THEN SetToolCall(FreeToolSlot,
                [kind |-> tool, pc |-> "done", held |-> FALSE,
                 outcome |-> "returned", ops |-> <<>>, thrown |-> None,
                 result |-> NotConnectedResult(tool)])
         ELSE IF p.threw
         THEN SetToolCall(FreeToolSlot,
                [kind |-> tool, pc |-> "done", held |-> TRUE,
                 outcome |-> "raised", ops |-> <<>>, thrown |-> None,
                 failure |-> p.message])
         ELSE SetToolCall(FreeToolSlot,
                [kind |-> tool, pc |-> "await", bridge |-> bridge,
                 nsParam |-> params.namespace, params |-> params,
                 op |-> p.op, ops |-> <<p.op.name>>])
  /\ ToolEffect

\* mutant: a call resumes only once no refresh is waiting for stats()
ToolResumesAfterRefresh(j) ==
  /\ toolCalls[j].kind \in Tools /\ toolCalls[j].pc = "await"
  /\ ~\E i \in CallIds : calls[i].kind = "tick" /\ calls[i].pc = "stats"

\* await bridge.read(key) and the like: execute() resumes when its own
\* backend operation settles
ToolResumes(j) == toolCalls[j].kind \in Tools /\ toolCalls[j].pc = "await"

\* the awaited backend operation settles and execute() returns its result
ToolStep(j) ==
  /\ Quiet
  /\ ToolResumes(j)
  /\ \E s \in Settlements(toolCalls[j].op.name) :
       LET c == toolCalls[j]
       IN  SetToolCall(j, [kind |-> c.kind, pc |-> "done",
                           held |-> c.bridge # NoHandle,
                           outcome |-> "returned", ops |-> c.ops,
                           params |-> c.params,
                           resolved |-> IF s.ok THEN Some(s.value) ELSE None,
                           thrown |-> IF s.ok THEN None ELSE Some(s.err),
                           result |-> jsonResult(
                             IF s.ok THEN SuccessPayload(c.kind, c.op, s.value)
                             ELSE FailurePayload(c.kind, c.op, s.err))])
  /\ ToolEffect

(* ---------------------- status query and health check ------------------ *)
\* the CLI command "memory-bridge status" and the gateway method
\* "memory-bridge/health"
Queries == {"status", "health"}

\* mutant: the health check reports healthy whatever the flag
HealthStatusAlwaysHealthy(connected) == "healthy"

\* status: status.connected ? "healthy" : "disconnected"
HealthStatus(connected) == IF connected THEN "healthy" ELSE "disconnected"

\* what the health method returns
Health ==
  LET status == getMemoryBridgeStatus
  IN  [status |-> HealthStatus(status.connected),
       plugin |-> "memory-bridge",
       stats |-> status.stats,
       error |-> status.error]

\* the command or the method is invoked: it awaits the import of the service
\* module, which index.ts has already loaded
QueryInvoke(q) ==
  /\ HasFreeTool
  /\ SetToolCall(FreeToolSlot, [kind |-> q, pc |-> "import"])
  /\ UNCHANGED <<shared, refreshInterval, timers, created, disconnectCalled>>

\* the import has resolved: getMemoryBridgeStatus() is called; the command
\* prints the status, the method returns the health object
QueryStep(j) ==
  /\ Quiet
  /\ toolCalls[j].kind \in Queries /\ toolCalls[j].pc = "import"
  /\ SetToolCall(j, [kind |-> toolCalls[j].kind, pc |-> "done",
                     outcome |-> "returned", ops |-> <<>>,
                     result |-> IF toolCalls[j].kind = "status"
                                THEN getMemoryBridgeStatus
                                ELSE Health])
  /\ UNCHANGED <<shared, refreshInterval, timers, created, disconnectCalled>>

(* ------------------------- the lifecycle hooks -------------------------- *)
\* api.on("session_start" | "session_end" | "before_agent_start", handler)
Hooks == {"session_start", "session_end", "before_agent_start"}

\* what a handler returns when it has nothing to add: `return` in the
\* session hooks, `return {}` in before_agent_start
EmptyObject == [t |-> "object", v |-> <<>>]
HookDefault(h) == IF h = "before_agent_start" THEN EmptyObject ELSE Undefined

\* the backend operation a hook awaits
HookOp(h) == IF h = "before_agent_start" THEN "search" ELSE "write"

\* { prependContext: ... } built from the results, one "[Memory: key] content"
\* entry per result in the order returned
PrependContext(results) ==
  [t |-> "object",
   v |-> <<[name |-> "prependContext",
            value |-> [k \in DOMAIN results |->
                         [key |-> results[k].key,
                          content |-> results[k].content]]]>>]

\* the try branch: what the handler returns once the operation resolved
HookResolved(h, value) ==
  IF h = "before_agent_start" /\ Len(value) > 0
  THEN PrependContext(value)
  ELSE HookDefault(h)

\* mutant: the handler lets the backend's exception through
HookCatchRethrows(h, err) == [outcome |-> "raised", result |-> Undefined]

\* catch (err) { api.logger.warn(...) }, then the handler's default return
HookCatch(h, err) == [outcome |-> "returned", result |-> HookDefault(h)]

\* a hook fires: before_agent_start returns {} at once unless
\* config.autoContextInjection is set; otherwise the handler awaits the
\* import of the service module
HookInvoke(h, autoContextInjection) ==
  /\ HasFreeTool
  /\ IF h = "before_agent_start" /\ ~autoContextInjection
     THEN SetToolCall(FreeToolSlot,
            [kind |-> h, pc |-> "done", outcome |-> "returned",
             auto |-> autoContextInjection, imported |-> FALSE,
             held |-> FALSE, ops |-> <<>>, thrown |-> None,
             result |-> EmptyObject])
     ELSE SetToolCall(FreeToolSlot,
            [kind |-> h, pc |-> "import", auto |-> autoContextInjection])
  /\ UNCHANGED <<shared, refreshInterval, timers, created, disconnectCalled>>

\* the import has resolved: the handler reads the handle and returns when
\* there is none, else calls bridge.write / bridge.search and awaits it
HookImportStep(j) ==
  /\ Quiet
  /\ toolCalls[j].kind \in Hooks /\ toolCalls[j].pc = "import"
  /\ LET c == toolCalls[j]
         bridge == getMemoryBridge
     IN  IF NotConnected(bridge)
         THEN SetToolCall(j,
                [kind |-> c.kind, pc |-> "done", outcome |-> "returned",
                 auto |-> c.auto, imported |-> TRUE,
                 held |-> FALSE, ops |-> <<>>, thrown |-> None,
                 result |-> HookDefault(c.kind)])
         ELSE SetToolCall(j,
                [kind |-> c.kind, pc |-> "await", auto |-> c.auto,
                 bridge |-> bridge, ops |-> <<HookOp(c.kind)>>])
  /\ UNCHANGED <<shared, refreshInterval, timers, created, disconnectCalled>>

\* the awaited write or search settles and the handler returns
HookStep(j) ==
  /\ Quiet
  /\ toolCalls[j].kind \in Hooks /\ toolCalls[j].pc = "await"
  /\ \E s \in Settlements(HookOp(toolCalls[j].kind)) :
       LET c == toolCalls[j]
           end == IF s.ok
                  THEN [outcome |-> "returned",
                        result |-> HookResolved(c.kind, s.value)]
                  ELSE HookCatch(c.kind, s.err)
       IN  SetToolCall(j,
             [kind |-> c.kind, pc |-> "done", outcome |-> end.outcome,
              auto |-> c.auto, imported |-> TRUE,
              held |-> TRUE, ops |-> c.ops,
              thrown |-> IF s.ok THEN None ELSE Some(s.err),
              result |-> end.result])
  /\ UNCHANGED <<shared, refreshInterval, timers, created, disconnectCalled>>

(* ------------------------------ callers -------------------------------- *)
\* A completed call keeps its record (pc = "done") until its caller resumes
\* with the result or the exception; the caller resumes before any other
\* segment runs, so a "done" record is read against the state the call left.
Collect(i) ==
  /\ calls[i].pc = "done"
  /\ EndCall(i)
  /\ UNCHANGED <<shared, refreshInterval, timers, created, disconnectCalled>>

CollectTool(j) ==
  /\ toolCalls[j].pc = "done"
  /\ SetToolCall(j, Idle)
  /\ UNCHANGED <<shared, refreshInterval, timers, created, disconnectCalled>>

Next ==
  \/ StartInvoke
  \/ \E i \in CallIds : ImportStep(i)
  \/ \E i \in CallIds : DirectStep(i)
  \/ \E i \in CallIds : ConnectStep(i)
  \/ \E i \in CallIds : StartStatsStep(i)
  \/ StopInvoke
  \/ \E i \in CallIds : StopDisconnectStep(i)
  \/ \E t \in Handles : RefreshTick(t)
  \/ \E i \in CallIds : RefreshStatsStep(i)
  \/ \E tool \in Tools : \E params \in ToolParams(tool) :
       ToolInvoke(tool, params)
  \/ \E j \in ToolCallIds : ToolStep(j)
  \/ \E q \in Queries : QueryInvoke(q)
  \/ \E j \in ToolCallIds : QueryStep(j)
  \/ \E h \in Hooks : \E auto \in BOOLEAN : HookInvoke(h, auto)
  \/ \E j \in ToolCallIds : HookImportStep(j)
  \/ \E j \in ToolCallIds : HookStep(j)
  \/ \E i \in CallIds : Collect(i)
  \/ \E j \in ToolCallIds : CollectTool(j)

Spec == Init /\ [][Next]_vars

\* the service on its own: start(), stop() and the refresh callback, without
\* the tools, hooks and queries, which write nothing the service reads
ServiceNext ==
  \/ StartInvoke
  \/ \E i \in CallIds : ImportStep(i)
  \/ \E i \in CallIds : DirectStep(i)
  \/ \E i \in CallIds : ConnectStep(i)
  \/ \E i \in CallIds : StartStatsStep(i)
  \/ StopInvoke
  \/ \E i \in CallIds : StopDisconnectStep(i)
  \/ \E t \in Handles : RefreshTick(t)
  \/ \E i \in CallIds : RefreshStatsStep(i)
  \/ \E i \in CallIds : Collect(i)

\* the module load or backend call that the start() or stop() in slot i
\* awaits settles and the call resumes
AwaitSettles(i) ==
  \/ ImportStep(i)
  \/ DirectStep(i)
  \/ ConnectStep(i)
  \/ StartStatsStep(i)
  \/ StopDisconnectStep(i)

\* every awaited module load and backend call of start() and stop() settles,
\* and a caller resumes with the result of its call
Settles ==
  \A i \in CallIds : SF_vars(AwaitSettles(i)) /\ WF_vars(Collect(i))

LiveSpec == Init /\ [][ServiceNext]_vars /\ Settles

(* ------------------------------ properties ----------------------------- *)
StartDone(i) == calls[i].kind = "start" /\ calls[i].pc = "done"
ToolDone(j) == toolCalls[j].kind \in Tools /\ toolCalls[j].pc = "done"

\* the resolver went through every listed candidate and the direct path and
\* none gave a factory
ResolutionFailed(c) ==
  /\ ~c.ok
  /\ c.via = "none"
  /\ c.tried = <<1, 2, 3, DirectPath>>

\* handles connected by the factory on which disconnect() was never called
LiveHandles == created \ disconnectCalled

MemoryOps == {"read", "write", "search", "list", "delete", "stats"}

\* C1: start() never raises: whatever the resolver, the factory's connect
\* routine and the initial stats() call do, a completed start() has returned
\* normally.
C1_StartNeverRaises ==
  \A i \in CallIds : StartDone(i) => calls[i].outcome = "returned"

\* C1 witness: a start() has completed after the direct-construction factory
\* threw while connecting.
C1_Witness ==
  \E i \in CallIds :
    /\ StartDone(i)
    /\ ~calls[i].ok
    /\ calls[i].via = "direct"
    /\ calls[i].failure = Text("timeout")

\* C2 (as claimed): in every reachable state status().connected is true
\* exactly when getMemoryBridge() is non-null.
C2_ConnectedIffHandleHeld ==
  getMemoryBridgeStatus.connected <=> (getMemoryBridge # NoHandle)

\* C3: when every listed candidate and the direct-construction path fail,
\* start() returns normally, the last error is recorded (the load-failure
\* message) and status().connected is false.
C3_ResolutionFailureDegrades ==
  \A i \in CallIds :
    (StartDone(i) /\ ResolutionFailed(calls[i])) =>
      /\ calls[i].outcome = "returned"
      /\ getMemoryBridgeStatus.error = Some(LoadFailedMessage)
      /\ ~getMemoryBridgeStatus.connected

\* C3 witness: a start() whose whole resolution failed has completed.
C3_Witness ==
  \E i \in CallIds : StartDone(i) /\ ResolutionFailed(calls[i])

\* C4 (as claimed): after any start() that fails, status().error is the
\* failure's message, status().connected is false and no handle is held,
\* whatever the state was when start() was called.
C4_FailedStartLeavesNoHandle ==
  \A i \in CallIds :
    (StartDone(i) /\ ~calls[i].ok) =>
      /\ getMemoryBridgeStatus.error = Some(calls[i].failure)
      /\ ~getMemoryBridgeStatus.connected
      /\ getMemoryBridge = NoHandle

\* C5 (as claimed): at most one backend handle is live at any time.
C5_AtMostOneLiveHandle == Cardinality(LiveHandles) <= 1

\* C6: a tool call made while no handle is held returns the structured result
\* whose error is "Memory bridge not connected", does not throw, invokes no
\* backend operation and does not connect: no handle is held afterwards.
C6_NotConnectedResult ==
  \A j \in ToolCallIds :
    (ToolDone(j) /\ ~toolCalls[j].held) =>
      /\ toolCalls[j].outcome = "returned"
      /\ toolCalls[j].result = NotConnectedResult(toolCalls[j].kind)
      /\ toolCalls[j].result.details.error = NotConnectedMessage
      /\ toolCalls[j].ops = <<>>
      /\ getMemoryBridge = NoHandle

\* C6 witness: a search made after a failed start() has returned while no
\* handle is held.
C6_Witness ==
  \E j \in ToolCallIds :
    /\ ToolDone(j)
    /\ toolCalls[j].kind = "memory_search_enterprise"
    /\ ~toolCalls[j].held
    /\ lastError # None

\* C7: when a handle is held and the backend operation throws, the tool call
\* returns a structured failure carrying the exception's message and the
\* exception does not propagate.
C7_BackendErrorBecomesResult ==
  \A j \in ToolCallIds :
    (ToolDone(j) /\ toolCalls[j].thrown # None) =>
      /\ toolCalls[j].outcome = "returned"
      /\ "error" \in DOMAIN toolCalls[j].result.details
      /\ toolCalls[j].result.details.error = MessageOf(toolCalls[j].thrown[1])

\* C7 witness: a delete whose backend call threw a value that is no Error
\* has completed.
C7_Witness ==
  \E j \in ToolCallIds :
    /\ ToolDone(j)
    /\ toolCalls[j].kind = "memory_delete"
    /\ toolCalls[j].held
    /\ toolCalls[j].thrown # None
    /\ ~toolCalls[j].thrown[1].isError

\* C8 (as claimed): every tool call returns a well-formed result object and
\* never throws, also when a required parameter is missing, non-string or
\* blank, and then without a backend call.
C8_ToolAlwaysReturnsResult ==
  \A j \in ToolCallIds :
    ToolDone(j) =>
      /\ toolCalls[j].outcome = "returned"
      /\ {"content", "details"} \subseteq DOMAIN toolCalls[j].result

\* the namespace parameter names a schema validateSchema rejects
InvalidNamespace(raw) == raw.t = "string" /\ validateSchema(raw.v).threw

\* C9 (as claimed, the part about the backend): a store, search, read or
\* delete call whose namespace is not in the allow-list after normalisation
\* never has a backend operation invoked for it, whether or not a handle is
\* held. (The claim adds that the call is rejected with an invalid-schema
\* failure.)
C9_InvalidNamespaceNeverReachesBackend ==
  \A j \in ToolCallIds :
    ( /\ toolCalls[j].kind \in {"memory_store", "memory_search_enterprise",
                                "memory_read", "memory_delete"}
      /\ toolCalls[j].pc = "await" ) =>
      ~InvalidNamespace(toolCalls[j].nsParam)

\* a step of a tool call: its invocation, the settling of its backend
\* operation, or its caller resuming
ToolCallStep(j) == toolCalls'[j] # toolCalls[j]

\* C10: no step of a tool call changes the held handle, the connected flag,
\* the cached stats or the last error, or connects or disconnects a handle;
\* the only backend operations a tool invokes are the memory operations; and
\* a search whose backend call throws Error("timeout") returns
\* {results: [], error: "timeout"}.
C10_ToolCallsLeaveStateAlone ==
  [][ \A j \in ToolCallIds :
        ToolCallStep(j) =>
          /\ UNCHANGED <<memoryBridge, isConnected, cachedStats, lastError>>
          /\ UNCHANGED <<created, disconnectCalled>>
          /\ toolCalls'[j].kind \in Tools =>
               /\ \A k \in DOMAIN toolCalls'[j].ops :
                    toolCalls'[j].ops[k] \in MemoryOps
               /\ ( /\ toolCalls'[j].pc = "done"
                    /\ toolCalls'[j].kind = "memory_search_enterprise"
                    /\ toolCalls'[j].thrown =
                         Some([isError |-> TRUE, message |-> Text("timeout")]) ) =>
                    toolCalls'[j].result.details =
                      [results |-> <<>>, error |-> Text("timeout")] ]_vars

\* C10 witness: a search whose backend call threw "timeout" has returned and
\* the connection is still up.
C10_Witness ==
  \E j \in ToolCallIds :
    /\ ToolDone(j)
    /\ toolCalls[j].kind = "memory_search_enterprise"
    /\ toolCalls[j].thrown = Some([isError |-> TRUE, message |-> Text("timeout")])
    /\ toolCalls[j].result.details = [results |-> <<>>, error |-> Text("timeout")]
    /\ toolCalls[j].held
    /\ isConnected
    /\ memoryBridge # NoHandle

\* a call whose record is completed by this step
Completes(i) == calls'[i].pc = "done" /\ calls[i].pc # "done"

\* the value the stats() call of a completed start() or refresh resolved to,
\* None when it threw or was never made
StatsReturned(c) ==
  IF c.kind = "tick" THEN c.stats
  ELSE IF c.kind = "start" /\ c.ok THEN c.firstStats
  ELSE None

\* C11: a refresh tick whose stats() call throws changes neither the cached
\* snapshot nor the connected flag, the handle or the last error, and leaves
\* the refresh timer scheduled; and the cached snapshot only ever becomes
\* absent or the value a stats() call has just resolved to.
C11_FailedRefreshChangesNothing ==
  [][ /\ \A i \in CallIds :
           ( /\ Completes(i)
             /\ calls'[i].kind = "tick"
             /\ calls'[i].stats = None ) =>
             UNCHANGED <<cachedStats, isConnected, memoryBridge, lastError,
                         refreshInterval, timers>>
      /\ cachedStats' # cachedStats =>
           \/ cachedStats' = None
           \/ \E i \in CallIds :
                /\ Completes(i)
                /\ StatsReturned(calls'[i]) = cachedStats' ]_vars

\* C11 witness: a refresh whose stats() call threw has returned; the earlier
\* snapshot is still cached, the connection is up and the timer is scheduled.
C11_Witness ==
  \E i \in CallIds :
    /\ calls[i].kind = "tick" /\ calls[i].pc = "done"
    /\ calls[i].stats = None
    /\ cachedStats # None
    /\ isConnected
    /\ memoryBridge = calls[i].handle
    /\ refreshInterval \in timers

StopDone(i) == calls[i].kind = "stop" /\ calls[i].pc = "done"

\* the state stop() is to leave: no handle, not connected, no stats, no error
Disconnected ==
  /\ getMemoryBridge = NoHandle
  /\ ~getMemoryBridgeStatus.connected
  /\ getMemoryBridgeStatus.stats = None
  /\ getMemoryBridgeStatus.error = None

\* C12: stop() is idempotent: a stop() invoked when start() was never called,
\* or right after another stop(), returns normally and leaves the state
\* disconnected.
C12_StopIdempotent ==
  \A i \in CallIds :
    (StopDone(i) /\ calls[i].prev \in {"none", "stop"}) =>
      /\ calls[i].outcome = "returned"
      /\ Disconnected

\* C12 witness: a second stop() in a row has completed, after a start() had
\* connected and the stop() before had disconnected its handle.
C12_Witness ==
  \E i \in CallIds :
    /\ StopDone(i)
    /\ calls[i].prev = "stop"
    /\ created # {}
    /\ created \subseteq disconnectCalled

\* a stop() has completed although start() was never called
C12_NeverStarted ==
  \E i \in CallIds : StopDone(i) /\ calls[i].prev = "none"

\* C13: when stop() completes, the handle, the connected flag, the cached
\* stats and the last error are all cleared and stop() has returned normally,
\* whether disconnect() resolved or threw.
C13_StopClearsEverything ==
  \A i \in CallIds :
    StopDone(i) =>
      /\ calls[i].outcome = "returned"
      /\ Disconnected

\* C13 witness: a stop() whose disconnect() threw has completed, on a
\* connection that had a cached snapshot.
C13_Witness ==
  \E i \in CallIds :
    /\ StopDone(i)
    /\ calls[i].disconnected # NoHandle
    /\ calls[i].disconnectThrew

\* C14 (as claimed): after a start() that succeeds, status().connected is
\* true, status().error is absent and status().stats is the value the first
\* successful stats() call on the new handle returned.
C14_StatusAfterSuccessfulStart ==
  \A i \in CallIds :
    (StartDone(i) /\ calls[i].ok) =>
      /\ getMemoryBridgeStatus.connected
      /\ getMemoryBridgeStatus.error = None
      /\ calls[i].firstStats # None =>
           getMemoryBridgeStatus.stats = calls[i].firstStats

\* a start() whose record holds the resolver's log: one still resolving or
\* connecting, or one that failed
HasLog(c) == c.kind = "start" /\ "tried" \in DOMAIN c

\* C15: resolution tries the listed candidates strictly in list order, and
\* once a candidate's module provides createMemoryBridge the resolver returns
\* that module: it is the last path attempted, no later candidate and not the
\* direct-construction path.
C15_ResolutionInListOrder ==
  \A i \in CallIds :
    HasLog(calls[i]) =>
      LET c == calls[i]
      IN  /\ \A k \in DOMAIN c.tried :
               c.tried[k] # DirectPath => c.tried[k] = k
          /\ c.found # 0 =>
               /\ c.via = "candidate"
               /\ c.tried = [k \in 1..c.found |-> k]
               /\ c.pc \notin {"import", "direct"}
          /\ c.via = "candidate" => c.found = c.tried[Len(c.tried)]

\* C15 witness: the first candidate failed, the second provided the factory
\* and start() is connecting with it.
C15_Witness ==
  \E i \in CallIds :
    /\ HasLog(calls[i])
    /\ calls[i].pc = "connect"
    /\ calls[i].found = 2
    /\ calls[i].tried = <<1, 2>>

\* C16: the resolver does not throw; it reports failure (start() then fails
\* with the load-failure message) only after every listed candidate and then
\* the direct-construction path were attempted and failed; and the direct
\* path is attempted only after every listed candidate failed.
C16_FailureOnlyAfterAllPaths ==
  \A i \in CallIds :
    HasLog(calls[i]) =>
      LET c == calls[i]
          direct == c.pc = "direct" \/ \E k \in DOMAIN c.tried : c.tried[k] = DirectPath
      IN  /\ direct =>
               /\ c.found = 0
               /\ Len(c.tried) >= Len(importPaths)
               /\ SubSeq(c.tried, 1, Len(importPaths)) =
                    [k \in 1..Len(importPaths) |-> k]
               /\ Len(c.tried) <= Len(importPaths) + 1
          /\ (c.pc = "done" /\ c.via = "none") =>
               /\ c.tried = [k \in 1..Len(importPaths) |-> k] \o <<DirectPath>>
               /\ c.failure = LoadFailedMessage
               /\ c.outcome = "returned"
          /\ (c.pc = "done" /\ c.failure = LoadFailedMessage) => c.via = "none"

\* C16 witness: the three listed candidates failed, the direct-construction
\* path was attempted and loaded, and start() is connecting with it.
C16_Witness ==
  \E i \in CallIds :
    /\ HasLog(calls[i])
    /\ calls[i].pc = "connect"
    /\ calls[i].via = "direct"
    /\ calls[i].tried = <<1, 2, 3, DirectPath>>

\* C17 (as claimed): writes of the module state are serialized: no call
\* writes the handle, the connected flag, the cached stats or the last error
\* between two writes of another call still in progress. start() is the call
\* that writes twice (handle, flag and error after connecting, the stats
\* after the initial fetch), so: no start() that wrote the stats had another
\* call write between its two writes.
C17_WritesSerialized ==
  \A i \in CallIds :
    (StartDone(i) /\ calls[i].ok /\ calls[i].firstStats # None) =>
      ~calls[i].interleaved

\* the observable connection state
ConnState ==
  IF getMemoryBridgeStatus.connected THEN "connected"
  ELSE IF getMemoryBridgeStatus.error # None THEN "error"
  ELSE "disconnected"

\* the step is start() i storing the handle it connected
StartConnects(i) ==
  /\ calls[i].kind = "start" /\ calls[i].pc = "connect"
  /\ calls'[i].kind = "start" /\ calls'[i].pc = "stats"

\* the step is start() i failing
StartFails(i) ==
  Completes(i) /\ calls'[i].kind = "start" /\ ~calls'[i].ok

\* the step is stop() i completing
StopCompletes(i) == Completes(i) /\ calls'[i].kind = "stop"

\* C18 (as claimed): the observable connection state only changes along
\* disconnected -> connected by a successful start(), disconnected -> error
\* by a failed start(), and connected or error -> disconnected by stop(); no
\* start() moves connected to error and no refresh changes the state.
C18_StateTransitions ==
  [][ ConnState' # ConnState =>
        \/ /\ ConnState = "disconnected" /\ ConnState' = "connected"
           /\ \E i \in CallIds : StartConnects(i)
        \/ /\ ConnState = "disconnected" /\ ConnState' = "error"
           /\ \E i \in CallIds : StartFails(i)
        \/ /\ ConnState \in {"connected", "error"}
           /\ ConnState' = "disconnected"
           /\ \E i \in CallIds : StopCompletes(i) ]_vars

\* a refresh callback is waiting for its stats() call to settle
RefreshWaiting == \E i \in CallIds : calls[i].kind = "tick" /\ calls[i].pc = "stats"

\* C19: while a refresh's stats() call is outstanding, and for as long as it
\* stays so, a tool call can be dispatched to the backend (here a read on
\* the held handle) and a tool call waiting for its own backend operation
\* can complete with that operation's result.
C19_RefreshDoesNotBlockTools ==
  (RefreshWaiting /\ Quiet) =>
    /\ (HasFreeTool /\ getMemoryBridge # NoHandle) =>
         ENABLED ( /\ ToolInvoke("memory_read",
                                 [key |-> Str(<<" ", "k", "\t">>),
                                  namespace |-> Undefined])
                   /\ \E j \in ToolCallIds :
                        /\ toolCalls[j].kind = "idle"
                        /\ toolCalls'[j].pc = "await"
                        /\ toolCalls'[j].ops = <<"read">> )
    /\ \A j \in ToolCallIds :
         (toolCalls[j].kind \in Tools /\ toolCalls[j].pc = "await") =>
           ENABLED ( /\ ToolStep(j)
                     /\ toolCalls'[j].pc = "done"
                     /\ toolCalls'[j].thrown = None )

\* C19 witness: a read dispatched to the backend has returned the content
\* found while a refresh is still waiting for stats().
C19_Witness ==
  /\ RefreshWaiting
  /\ \E j \in ToolCallIds :
       /\ ToolDone(j)
       /\ toolCalls[j].kind = "memory_read"
       /\ toolCalls[j].ops = <<"read">>
       /\ toolCalls[j].thrown = None
       /\ toolCalls[j].result.details.found

\* a step of a status query or a health check
QueryCallStep(j) ==
  /\ toolCalls'[j] # toolCalls[j]
  /\ toolCalls[j].kind \in Queries \/ toolCalls'[j].kind \in Queries

\* C20: the status query and the health check are pure reads of the cache:
\* none of their steps changes the module state, the timer or the handles or
\* calls the backend, the status query reports the three cached values, and
\* the health check reports "healthy" exactly when status().connected is
\* true and "disconnected" otherwise, with the cached stats and last error
\* passed through.
C20_StatusAndHealthArePureReads ==
  [][ \A j \in ToolCallIds :
        QueryCallStep(j) =>
          /\ UNCHANGED <<memoryBridge, isConnected, cachedStats, lastError>>
          /\ UNCHANGED <<refreshInterval, timers, created, disconnectCalled>>
          /\ UNCHANGED calls
          /\ toolCalls'[j].pc = "done" =>
               LET r == toolCalls'[j].result
               IN  /\ toolCalls'[j].ops = <<>>
                   /\ toolCalls'[j].outcome = "returned"
                   /\ toolCalls'[j].kind = "status" =>
                        r = [connected |-> isConnected, stats |-> cachedStats,
                             error |-> lastError]
                   /\ toolCalls'[j].kind = "health" =>
                        /\ r.status = "healthy" <=> isConnected
                        /\ r.status = "disconnected" <=> ~isConnected
                        /\ r.stats = cachedStats
                        /\ r.error = lastError ]_vars

\* C20 witness: a health check made after a failed start() has reported
\* "disconnected" with the recorded error.
C20_Witness ==
  \E j \in ToolCallIds :
    /\ toolCalls[j].kind = "health" /\ toolCalls[j].pc = "done"
    /\ toolCalls[j].result.status = "disconnected"
    /\ toolCalls[j].result.error # None
    /\ toolCalls[j].result.error = lastError

\* a value was given: it is not undefined
Given(x) == x.t # "undefined"

\* C21 (as claimed): for each of host, port and database, the parameter
\* passed to the factory is the explicit plugin-config value when one is
\* given, otherwise the environment-derived value when the variable is
\* present, otherwise the hard-coded fallback.
C21_ExplicitOverEnvOverFallback ==
  fn.op = "bridgeConfig" =>
    /\ fn.out.postgresHost =
         IF Given(fn.config.host) THEN fn.config.host
         ELSE IF Given(fn.env.CLAUDE_FLOW_PG_HOST)
              THEN fn.env.CLAUDE_FLOW_PG_HOST
         ELSE FallbackHost
    /\ fn.out.postgresPort =
         IF Given(fn.config.port) THEN fn.config.port
         ELSE IF Given(fn.env.CLAUDE_FLOW_PG_PORT)
              THEN parseInt(fn.env.CLAUDE_FLOW_PG_PORT)
         ELSE Num(5432)
    /\ fn.out.database =
         IF Given(fn.config.database) THEN fn.config.database
         ELSE IF Given(fn.env.CLAUDE_FLOW_DATABASE)
              THEN fn.env.CLAUDE_FLOW_DATABASE
         ELSE FallbackDatabase

NonEmpty(x) == x.t = "string" /\ x.v # <<>>
NonZero(x) == x.t = "number" /\ x.v # <<0>>

\* C21 (amended): for each of host, port and database, the parameter passed
\* to the factory is the explicit plugin-config value when it is given and
\* not empty (not zero for the port), otherwise the environment variable's
\* value when it is set and not empty (for the port, the integer parseInt
\* reads from it, NaN when it has no leading digits), otherwise the
\* hard-coded fallback.
C21_NonEmptyExplicitOverEnvOverFallback ==
  fn.op = "bridgeConfig" =>
    /\ fn.out.postgresHost =
         IF NonEmpty(fn.config.host) THEN fn.config.host
         ELSE IF NonEmpty(fn.env.CLAUDE_FLOW_PG_HOST)
              THEN fn.env.CLAUDE_FLOW_PG_HOST
         ELSE FallbackHost
    /\ fn.out.postgresPort =
         IF NonZero(fn.config.port) THEN fn.config.port
         ELSE IF NonEmpty(fn.env.CLAUDE_FLOW_PG_PORT)
              THEN parseInt(fn.env.CLAUDE_FLOW_PG_PORT)
         ELSE Num(5432)
    /\ fn.out.database =
         IF NonEmpty(fn.config.database) THEN fn.config.database
         ELSE IF NonEmpty(fn.env.CLAUDE_FLOW_DATABASE)
              THEN fn.env.CLAUDE_FLOW_DATABASE
         ELSE FallbackDatabase
    /\ ~NonZero(fn.config.port) =>
         /\ fn.env.CLAUDE_FLOW_PG_PORT = Str(<<"6","5","4","3">>) =>
              fn.out.postgresPort = Num(6543)
         /\ fn.env.CLAUDE_FLOW_PG_PORT = Str(<<" ","6","5","x">>) =>
              fn.out.postgresPort = Num(65)
         /\ fn.env.CLAUDE_FLOW_PG_PORT = Str(<<"a","b","c">>) =>
              fn.out.postgresPort = NaN

\* C21 witness: the parameters were built from a configuration with an empty
\* host and port 0 in an environment that sets both: the environment's
\* values were passed.
C21_Witness ==
  /\ fn.op = "bridgeConfig"
  /\ fn.config.host = Str(<<>>)
  /\ fn.config.port = Num(0)
  /\ fn.out.postgresHost = Str(<<"e">>)
  /\ fn.out.postgresPort = Num(6543)
  /\ fn.out.database = Str(<<"d">>)

\* the two characters are the same letter, in either case
SameLetter(c, d) ==
  c = d \/ \E k \in DOMAIN UpperCase : {c, d} = {UpperCase[k], LowerCase[k]}

\* raw spells the name a: white space, the letters of a in any case, white
\* space
Spells(raw, a) ==
  \E i \in 0..Len(raw) :
    /\ i + Len(a) <= Len(raw)
    /\ \A k \in 1..Len(raw) :
         IF k <= i \/ k > i + Len(a) THEN raw[k] \in WhiteSpace
         ELSE SameLetter(raw[k], a[k - i])

\* C22: the store tool accepts a namespace exactly when it spells an
\* allow-listed schema up to letter case and surrounding white space, and
\* then reports that schema's lower-case name; every other namespace gives
\* the structured failure {success: false, error: "Invalid schema: ..."}.
C22_SchemaAcceptedIffAllowListed ==
  fn.op = "stored" =>
    LET raw == IF Given(fn.params.namespace) THEN fn.params.namespace.v
               ELSE fn.config.defaultNamespace
    IN  IF \E a \in ALLOWED_SCHEMAS : Spells(raw, a)
        THEN /\ fn.out.success
             /\ fn.out.namespace \in ALLOWED_SCHEMAS
             /\ Spells(raw, fn.out.namespace)
        ELSE /\ ~fn.out.success
             /\ DOMAIN fn.out = {"success", "error"}
             /\ fn.out.error = <<"Invalid schema: ">> \o raw

\* C22 witness: "Internal" was stored under "internal"
C22_Witness ==
  /\ fn.op = "stored"
  /\ fn.params.namespace = Str(<<"I","n","t","e","r","n","a","l">>)
  /\ fn.out.success
  /\ fn.out.namespace = <<"i","n","t","e","r","n","a","l">>

\* "drop_all" was rejected
C22_RejectedWitness ==
  /\ fn.op = "stored"
  /\ fn.params.namespace = Str(<<"d","r","o","p","_","a","l","l">>)
  /\ ~fn.out.success

\* C23: a search the backend answered returns the backend's results in the
\* same order and number, each with key, content, score and namespace
\* unchanged, and with the result's metadata exactly when the includeMetadata
\* parameter is the boolean true and the backend's result has metadata.
C23_SearchResultsPassedThrough ==
  \A j \in ToolCallIds :
    LET c == toolCalls[j]
    IN  (ToolDone(j) /\ c.kind = "memory_search_enterprise"
           /\ c.ops = <<"search">> /\ c.resolved # None) =>
          LET back == c.resolved[1]
              res == c.result.details.results
              wanted == c.params.includeMetadata = [t |-> "boolean", v |-> <<TRUE>>]
          IN  /\ Len(res) = Len(back)
              /\ c.result.details.count = Len(back)
              /\ \A k \in 1..Len(back) :
                   /\ res[k].key = back[k].key
                   /\ res[k].content = back[k].content
                   /\ res[k].score = back[k].score
                   /\ res[k].namespace = back[k].namespace
                   /\ DOMAIN res[k] \subseteq
                        {"key", "content", "score", "namespace", "metadata"}
                   /\ "metadata" \in DOMAIN res[k]
                        <=> (wanted /\ back[k].metadata # None)
                   /\ "metadata" \in DOMAIN res[k]
                        => res[k].metadata = back[k].metadata[1]

\* C23 witness: a search with includeMetadata true returned two results, the
\* first with metadata and the second without
C23_Witness ==
  \E j \in ToolCallIds :
    /\ ToolDone(j) /\ toolCalls[j].kind = "memory_search_enterprise"
    /\ toolCalls[j].ops = <<"search">> /\ toolCalls[j].resolved # None
    /\ toolCalls[j].params.includeMetadata = [t |-> "boolean", v |-> <<TRUE>>]
    /\ Len(toolCalls[j].result.details.results) = 2
    /\ "metadata" \in DOMAIN toolCalls[j].result.details.results[1]
    /\ "metadata" \notin DOMAIN toolCalls[j].result.details.results[2]

\* the number of refreshes waiting for their stats(), and of service calls
\* and refreshes not yet collected
TicksWaiting(cs) ==
  Cardinality({i \in CallIds : cs[i].kind = "tick" /\ cs[i].pc = "stats"})
Uncollected(cs) == Cardinality({i \in CallIds : cs[i].kind # "idle"})

\* C24: in the step in which stop() calls disconnect(), the service's timer
\* is already cancelled and the handle is still held; in the step in which
\* stop() clears the state, the timer it cancelled is not scheduled, and was
\* not while stop() awaited disconnect(); and no step taken while no handle
\* is held starts a refresh's stats() call.
C24_TimerCancelledFirst ==
  [][/\ disconnectCalled' # disconnectCalled =>
          /\ refreshInterval' = 0
          /\ refreshInterval \notin timers'
          /\ memoryBridge # NoHandle /\ memoryBridge' = memoryBridge
          /\ disconnectCalled' = disconnectCalled \cup {memoryBridge}
     /\ \A i \in CallIds :
          (Completes(i) /\ calls'[i].kind = "stop"
             /\ Uncollected(calls') >= Uncollected(calls)) =>
            /\ memoryBridge' = NoHandle
            /\ calls'[i].cancelled \notin timers'
            /\ refreshInterval' = 0 \/ refreshInterval' # calls'[i].cancelled
            /\ calls[i].kind = "stop" =>
                 /\ calls[i].cancelled \notin timers
                 /\ memoryBridge = NoHandle \/ calls[i].handle \in disconnectCalled
     /\ memoryBridge = NoHandle =>
          /\ TicksWaiting(calls') <= TicksWaiting(calls)
          /\ \A t \in timers :
               ENABLED RefreshTick(t) => ~ENABLED (RefreshTick(t) /\ vars' # vars)
    ]_vars

\* C24 witness: a stop() that cancelled a timer and disconnected a handle has
\* completed, and another timer is still scheduled with no handle held
C24_Witness ==
  /\ \E i \in CallIds :
       /\ StopDone(i)
       /\ calls[i].cancelled # 0
       /\ calls[i].disconnected # NoHandle
  /\ memoryBridge = NoHandle
  /\ timers # {}

\* C25: the step in which start() resumes from an initial stats() that threw
\* changes neither the handle, the connected flag, the last error nor the
\* snapshot, schedules the periodic refresh and returns without raising; if
\* no other call wrote the state while start() awaited stats(), the service
\* is then connected: handle held, flag set, no error.
C25_InitialStatsFailureKeepsConnected ==
  [][\A i \in CallIds :
       (Completes(i) /\ Uncollected(calls') >= Uncollected(calls)
          /\ calls'[i].kind = "start" /\ calls'[i].ok
          /\ calls'[i].firstStats = None) =>
         /\ UNCHANGED <<memoryBridge, isConnected, lastError, cachedStats>>
         /\ calls'[i].outcome = "returned"
         /\ refreshInterval' # 0
         /\ refreshInterval' \in timers' \ timers
         /\ ~calls'[i].interleaved =>
              /\ isConnected'
              /\ memoryBridge' = calls'[i].handle
              /\ memoryBridge' # NoHandle
              /\ lastError' = None
    ]_vars

\* C25 witness: a start() whose initial stats() threw has returned with the
\* service connected, without a snapshot, and its timer scheduled
C25_Witness ==
  \E i \in CallIds :
    /\ StartDone(i) /\ calls[i].ok /\ calls[i].firstStats = None
    /\ ~calls[i].interleaved
    /\ isConnected /\ memoryBridge = calls[i].handle /\ lastError = None
    /\ cachedStats = None
    /\ refreshInterval \in timers

\* C26: a tick that fires starts a stats() call exactly when a handle is held
\* and the connected flag is set at that moment, and calls it on the handle
\* held; when that stats() resolves, cachedStats becomes exactly the value it
\* resolved to.
C26_RefreshCallsStatsIffConnected ==
  [][/\ \A t \in timers :
          (Quiet /\ HasFree) =>
            ((memoryBridge # NoHandle /\ isConnected)
               <=> ENABLED (RefreshTick(t)
                              /\ TicksWaiting(calls') > TicksWaiting(calls)))
     /\ TicksWaiting(calls') > TicksWaiting(calls) =>
          /\ memoryBridge # NoHandle /\ isConnected
          /\ \E i \in CallIds :
               /\ calls[i].kind = "idle"
               /\ calls'[i].kind = "tick" /\ calls'[i].pc = "stats"
               /\ calls'[i].handle = memoryBridge
     /\ \A i \in CallIds :
          (Completes(i) /\ Uncollected(calls') >= Uncollected(calls)
             /\ calls'[i].kind = "tick" /\ calls'[i].stats # None) =>
            /\ cachedStats' = calls'[i].stats
            /\ calls'[i].stats[1] \in StatsValues
    ]_vars

\* C26 witness: a refresh replaced a snapshot by a different one
C26_Witness ==
  \E i \in CallIds :
    /\ calls[i].kind = "tick" /\ calls[i].pc = "done"
    /\ calls[i].stats # None
    /\ calls[i].before # None
    /\ calls[i].before # calls[i].stats
    /\ cachedStats = calls[i].stats

HookDone(j) == toolCalls[j].kind \in Hooks /\ toolCalls[j].pc = "done"

\* C27: a hook handler always returns. With no handle held it calls no
\* backend operation and returns nothing (session_start, session_end) or the
\* empty object (before_agent_start); when the backend's write or search
\* throws, the handler returns the same; before_agent_start calls the
\* backend only when autoContextInjection is set, and a handler awaiting the
\* backend read a handle.
C27_HooksNeverRaise ==
  \A j \in ToolCallIds :
    LET c == toolCalls[j]
        nothing == IF c.kind = "before_agent_start"
                   THEN [t |-> "object", v |-> <<>>]
                   ELSE [t |-> "undefined", v |-> <<>>]
    IN  /\ HookDone(j) =>
             /\ c.outcome = "returned"
             /\ ~c.held => (c.ops = <<>> /\ c.result = nothing)
             /\ c.thrown # None => c.result = nothing
             /\ (c.kind = "before_agent_start" /\ ~c.auto) =>
                  (c.ops = <<>> /\ c.result = nothing)
             /\ c.kind \in {"session_start", "session_end"} =>
                  (c.result = nothing /\ c.ops \in {<<>>, <<"write">>})
             /\ c.kind = "before_agent_start" => c.ops \in {<<>>, <<"search">>}
        /\ (c.kind \in Hooks /\ c.pc = "await") =>
             /\ c.bridge # NoHandle
             /\ c.kind = "before_agent_start" => c.auto

\* C27 witness: before_agent_start searched the backend, the search threw,
\* and the handler returned the empty object
C27_Witness ==
  \E j \in ToolCallIds :
    /\ HookDone(j) /\ toolCalls[j].kind = "before_agent_start"
    /\ toolCalls[j].ops = <<"search">>
    /\ toolCalls[j].thrown # None
    /\ toolCalls[j].result = EmptyObject

\* a session hook fired with no handle held and returned without a call
C27_NoHandleWitness ==
  \E j \in ToolCallIds :
    /\ HookDone(j) /\ toolCalls[j].kind = "session_start"
    /\ toolCalls[j].imported /\ ~toolCalls[j].held
    /\ toolCalls[j].ops = <<>>

\* before_agent_start returned context built from the results of its search
C27_ContextWitness ==
  \E j \in ToolCallIds :
    /\ HookDone(j) /\ toolCalls[j].kind = "before_agent_start"
    /\ toolCalls[j].result.v # <<>>

\* a stop() has been invoked and has not returned
StopInFlight == \E k \in CallIds : calls[k].kind = "stop" /\ calls[k].pc # "done"

\* C28 (as claimed): when stop() was invoked while a start() was awaiting
\* module resolution, connect or the initial stats(), no start() was invoked
\* after it, and both calls have completed, the service is disconnected: no
\* handle, connected false, stats absent and no refresh timer.
C28_StopDuringStartDisconnects ==
  \A i \in CallIds :
    ( /\ lastCall = "stop"
      /\ ~StartInFlight /\ ~StopInFlight
      /\ \/ StartDone(i)
         \/ StopDone(i) /\ calls[i].duringStart ) =>
      /\ memoryBridge = NoHandle
      /\ ~isConnected
      /\ cachedStats = None
      /\ refreshInterval = 0
      /\ timers = {}

\* C29 (as claimed): in every reachable state a snapshot is cached only while
\* the connected flag is set, so none is left after stop(), also when a
\* refresh's stats() was in flight, and none after a start() that failed.
C29_StatsOnlyWhileConnected ==
  /\ cachedStats # None => isConnected
  /\ \A i \in CallIds :
       (StartDone(i) /\ ~calls[i].ok) => cachedStats = None
  /\ \A i \in CallIds :
       (StopDone(i) /\ ~StartInFlight) => cachedStats = None

\* C30 (as claimed): at most one refresh timer is scheduled at any time, one
\* is scheduled only while a handle is held, and when a stop() has completed
\* with no start() in flight none is scheduled.
C30_AtMostOneTimer ==
  /\ Cardinality(timers) <= 1
  /\ timers # {} => memoryBridge # NoHandle
  /\ \A i \in CallIds : (StopDone(i) /\ ~StartInFlight) => timers = {}

\* C31 (as claimed): no step in which a tool or a hook invokes its backend
\* operation, or a refresh tick invokes stats(), invokes it on a handle on
\* which stop() has already called disconnect().
C31_NoOperationAfterDisconnect ==
  [][/\ \A j \in ToolCallIds :
          (toolCalls'[j].pc = "await" /\ toolCalls[j].pc # "await") =>
            toolCalls'[j].bridge \notin disconnectCalled
     /\ TicksWaiting(calls') > TicksWaiting(calls) =>
          memoryBridge \notin disconnectCalled
    ]_vars

\* C32: in every reachable state status().connected and status().error
\* exclude each other: connected true implies no error, an error implies
\* connected false.
C32_ConnectedExcludesError ==
  /\ getMemoryBridgeStatus.connected => getMemoryBridgeStatus.error = None
  /\ getMemoryBridgeStatus.error # None => ~getMemoryBridgeStatus.connected

\* C32 witness: a start() failed on a service that was connected: the error
\* is recorded, the flag is down and the earlier handle is still held
C32_Witness ==
  /\ \E i \in CallIds : StartDone(i) /\ ~calls[i].ok
  /\ lastError # None
  /\ ~isConnected
  /\ memoryBridge # NoHandle

\* a start() or a stop() in slot i has not returned
ServiceCallInFlight(i) ==
  calls[i].kind \in {"start", "stop"} /\ calls[i].pc # "done"

\* C33: when every awaited module load and backend call settles, every
\* start() and every stop() returns; and the resolver's log never holds a
\* listed candidate twice nor more than the listed candidates and the direct
\* path. Pending calls are held in order of invocation, a call moving one
\* position up when one ahead of it has returned and its caller resumed: so
\* a call in flight at position i returns when from every such state it or
\* a call ahead of it comes to return.
C33_ServiceCallsComplete ==
  /\ \A i \in CallIds :
       ServiceCallInFlight(i) ~> (\E k \in 1..i : calls[k].pc = "done")
  /\ [](\A i \in CallIds :
          HasLog(calls[i]) =>
            /\ Len(calls[i].tried) <= Len(importPaths) + 1
            /\ \A k, l \in DOMAIN calls[i].tried :
                 (calls[i].tried[k] = calls[i].tried[l]) => k = l)

\* C33 witness: a start() that went through every listed candidate and the
\* direct path, and a stop() invoked while it was resolving, have returned
C33_Witness ==
  /\ \E i \in CallIds :
       /\ StartDone(i) /\ ~calls[i].ok
       /\ Len(calls[i].tried) = Len(importPaths) + 1
  /\ lastCall = "stop"
  /\ ~StartInFlight /\ ~StopInFlight

====
